---- MODULE Spec2Model ----
(***************************************************************************)
(* Retrieval core of the computer-networking tutoring assistant:           *)
(*   - findRelevantContent (lib/ai/embedding): hybrid vector + lexical     *)
(*     retrieval with the identifier short-circuit, the reciprocal-rank    *)
(*     fusion and the text-search fallback;                                *)
(*   - POST /api/rag-chapter1: thread persistence, long-term memory        *)
(*     retrieval, corpus retrieval, model call and memory write.           *)
(*                                                                         *)
(* Text is a sequence of one-character strings.  Similarities are kept     *)
(* exact: a similarity s is stored as the integer s * ScoreOne.            *)
(***************************************************************************)
EXTENDS Integers, Sequences, FiniteSets, TLC

(***************************************************************************)
(* Characters and the JavaScript string operations the code uses           *)
(***************************************************************************)
LowerSeq == <<"a","b","c","d","e","f","g","h","i","j","k","l","m",
              "n","o","p","q","r","s","t","u","v","w","x","y","z">>

UpperSeq == <<"A","B","C","D","E","F","G","H","I","J","K","L","M",
              "N","O","P","Q","R","S","T","U","V","W","X","Y","Z">>

Digits == {"0","1","2","3","4","5","6","7","8","9"}

\* \s of the regular expressions: blank, tab, line feed, carriage return.
Whitespace == {" ", "\t", "\n", "\r"}

ToLowerChar(c) ==
  IF \E i \in 1..26 : UpperSeq[i] = c
    THEN LowerSeq[CHOOSE i \in 1..26 : UpperSeq[i] = c]
    ELSE c

ToUpperChar(c) ==
  IF \E i \in 1..26 : LowerSeq[i] = c
    THEN UpperSeq[CHOOSE i \in 1..26 : LowerSeq[i] = c]
    ELSE c

\* String.prototype.toLowerCase / toUpperCase
toLowerCase(s) == [i \in 1..Len(s) |-> ToLowerChar(s[i])]

toUpperCase(s) == [i \in 1..Len(s) |-> ToUpperChar(s[i])]

\* \w of the regular expressions
IsWordChar(c) == ToLowerChar(c) \in {LowerSeq[i] : i \in 1..26} \/ c \in Digits \/ c = "_"

Min(a, b) == IF a < b THEN a ELSE b

Max(a, b) == IF a > b THEN a ELSE b

\* Mutant: the list is not cut.
TakeAll(s, n) == s

\* Array.prototype.slice(0, n) / cursor.limit(n): the first n elements.
Take(s, n) == SubSeq(s, 1, Min(n, Len(s)))

\* The elements of s that are in the set keep, order kept.
RECURSIVE FilterSeq(_, _)
FilterSeq(s, keep) ==
  IF s = <<>> THEN <<>>
  ELSE IF Head(s) \in keep THEN <<Head(s)>> \o FilterSeq(Tail(s), keep)
  ELSE FilterSeq(Tail(s), keep)

Range(s) == {s[i] : i \in 1..Len(s)}

\* s has lit at position i, compared case-insensitively (the "i" option).
HasAtCI(s, i, lit) ==
  /\ i >= 1
  /\ i + Len(lit) - 1 <= Len(s)
  /\ \A k \in 1..Len(lit) : ToLowerChar(s[i + k - 1]) = ToLowerChar(lit[k])

\* String.prototype.includes (case-sensitive).
includes(s, lit) ==
  \E i \in 1..(Len(s) + 1) :
    /\ i + Len(lit) - 1 <= Len(s)
    /\ \A k \in 1..Len(lit) : s[i + k - 1] = lit[k]

\* String.prototype.split(' '): cuts at every single blank, empty pieces kept.
RECURSIVE SplitAt(_, _, _)
SplitAt(s, seps, cur) ==
  IF s = <<>> THEN <<cur>>
  ELSE IF Head(s) \in seps THEN <<cur>> \o SplitAt(Tail(s), seps, <<>>)
  ELSE SplitAt(Tail(s), seps, Append(cur, Head(s)))

splitBlank(s) == SplitAt(s, {" "}, <<>>)

\* String.prototype.split(/\s+/): cuts at every maximal run of whitespace.
RECURSIVE SplitRuns(_, _, _)
SplitRuns(s, cur, inRun) ==
  IF s = <<>> THEN <<cur>>
  ELSE IF Head(s) \in Whitespace
    THEN (IF inRun THEN SplitRuns(Tail(s), cur, TRUE)
          ELSE <<cur>> \o SplitRuns(Tail(s), <<>>, TRUE))
  ELSE SplitRuns(Tail(s), Append(cur, Head(s)), FALSE)

splitWhitespace(s) == SplitRuns(s, <<>>, FALSE)

\* .filter(term => term.length > 2)
RECURSIVE LongTerms(_)
LongTerms(terms) ==
  IF terms = <<>> THEN <<>>
  ELSE IF Len(Head(terms)) > 2 THEN <<Head(terms)>> \o LongTerms(Tail(terms))
  ELSE LongTerms(Tail(terms))

\* Array.from(new Set(xs)): duplicates dropped, first occurrences kept in order.
RECURSIVE Dedupe(_)
Dedupe(xs) ==
  IF xs = <<>> THEN <<>>
  ELSE LET front == Dedupe(SubSeq(xs, 1, Len(xs) - 1))
           last  == xs[Len(xs)]
       IN IF \E i \in 1..Len(front) : front[i] = last THEN front
          ELSE Append(front, last)

(***************************************************************************)
(* Identifier detection and the regular expressions sent to the store      *)
(***************************************************************************)
\* Number of digits of s starting at position i.
RECURSIVE DigitRun(_, _)
DigitRun(s, i) ==
  IF i <= Len(s) /\ s[i] \in Digits THEN 1 + DigitRun(s, i + 1) ELSE 0

\* /\b[PR]\d+\b/gi matches at position i of s.
IdMatchAt(s, i) ==
  LET d == DigitRun(s, i + 1) IN
  /\ ToUpperChar(s[i]) \in {"P", "R"}
  /\ i = 1 \/ ~IsWordChar(s[i - 1])
  /\ d >= 1
  /\ i + d = Len(s) \/ ~IsWordChar(s[i + d + 1])

RECURSIVE IdMatchesFrom(_, _)
IdMatchesFrom(s, i) ==
  IF i > Len(s) THEN <<>>
  ELSE IF IdMatchAt(s, i)
    THEN <<toUpperCase(SubSeq(s, i, i + DigitRun(s, i + 1)))>>
           \o IdMatchesFrom(s, i + 1 + DigitRun(s, i + 1))
  ELSE IdMatchesFrom(s, i + 1)

\* explicitIds: the identifiers of the query, upper-cased, without duplicates.
ExplicitIds(q) == Dedupe(IdMatchesFrom(q, 1))

\* regexTerms of the hybrid path, before the join.
RegexTerms(q) == LongTerms(splitWhitespace(toLowerCase(q)))

\* combined: the alternatives of the hybrid lexical pattern (joined by "|").
Combined(q) == ExplicitIds(q) \o RegexTerms(q)

\* searchTerms of the fallback path, before the join.
SearchTerms(q) == LongTerms(splitBlank(toLowerCase(q)))

\* A pattern is kept as the list of its alternatives; the query alphabet of
\* the model has one regular-expression metacharacter, the parenthesis, and
\* a pattern with an unbalanced parenthesis is rejected by the store.
RECURSIVE ParenDepth(_, _)
ParenDepth(s, depth) ==
  IF depth < 0 THEN depth
  ELSE IF s = <<>> THEN depth
  ELSE IF Head(s) = "(" THEN ParenDepth(Tail(s), depth + 1)
  ELSE IF Head(s) = ")" THEN ParenDepth(Tail(s), depth - 1)
  ELSE ParenDepth(Tail(s), depth)

RegexValid(alts) == \A k \in 1..Len(alts) : ParenDepth(alts[k], 0) = 0

\* { $regex: alts.join('|'), $options: 'i' }: some alternative occurs in the
\* content, case-insensitively; the empty pattern (no alternative) occurs
\* in every content.
RegexMatch(content, alts) ==
  \/ alts = <<>>
  \/ \E k \in 1..Len(alts) : \E i \in 1..(Len(content) + 1) : HasAtCI(content, i, alts[k])

\* Position of the first non-whitespace character of s at or after i.
RECURSIVE SkipWs(_, _)
SkipWs(s, i) ==
  IF i <= Len(s) /\ s[i] \in Whitespace THEN SkipWs(s, i + 1) ELSE i

\* id.split('').join('\\s*') matched at position i: the position after the
\* match, 0 when it does not match.
RECURSIVE SpacedIdEnd(_, _, _, _)
SpacedIdEnd(s, i, id, k) ==
  IF k > Len(id) THEN i
  ELSE LET j == IF k = 1 THEN i ELSE SkipWs(s, i) IN
       IF j <= Len(s) /\ ToLowerChar(s[j]) = ToLowerChar(id[k])
         THEN SpacedIdEnd(s, j + 1, id, k + 1)
         ELSE 0

Delimiters == {".", ":", "-", ")"}

ProblemWord == <<"P","r","o","b","l","e","m">>

\* Mutant: the identifier alone, whatever follows it.
IdThenAnything(s, i, id) == SpacedIdEnd(s, i, id, 1) # 0

\* (?:id)\s*[\.:\-\)] at position i.
IdThenDelimiter(s, i, id) ==
  LET e == SpacedIdEnd(s, i, id, 1)
      j == IF e = 0 THEN 0 ELSE SkipWs(s, e)
  IN e # 0 /\ j <= Len(s) /\ s[j] \in Delimiters

\* strongExpr = (^|\n|\r)\s*(?:Problem\s*)?(?:ids)\s*[\.:\-\)] with options
\* "im": at a line start, after optional whitespace and an optional word
\* "Problem", one of the identifiers followed by a delimiter.
StrongMatch(content, ids) ==
  \E p \in 1..Len(content) :
    /\ p = 1 \/ content[p - 1] \in {"\n", "\r"}
    /\ LET a == SkipWs(content, p)
           b == IF HasAtCI(content, a, ProblemWord)
                  THEN SkipWs(content, a + Len(ProblemWord)) ELSE a
       IN \E k \in 1..Len(ids) :
            IdThenDelimiter(content, a, ids[k]) \/ IdThenDelimiter(content, b, ids[k])

(***************************************************************************)
(* Reciprocal-rank fusion                                                  *)
(***************************************************************************)
rankConstant == 60

\* Similarities are exact rationals: s is stored as s * ScoreOne, where
\* ScoreOne = 10 * RankDen and RankDen is a common multiple of the
\* denominators idx + 1 + rankConstant of the ranks 0..3.
RankDen == (rankConstant + 1) * (rankConstant + 2) * (rankConstant + 3) * (rankConstant + 4)

ScoreOne == 10 * RankDen

\* Mutant: the short-circuit scored like a fallback match.
StrongSimilarityAsFallback == 7 * RankDen

\* similarity: 1.0 of the short-circuit
StrongSimilarity == ScoreOne

\* similarity: 0.7 of the text-search fallback
FallbackSimilarity == 7 * RankDen

\* Mutant: ranks counted from 1.
WeightedFromRankOne(tenths, idx) == tenths * (RankDen \div (idx + 2 + rankConstant))

\* weight * rr with rr = 1 / (idx + 1 + rankConstant), weight in tenths.
Weighted(tenths, idx) == tenths * (RankDen \div (idx + 1 + rankConstant))

VectorWeight == 6

TextWeight == 4

BoostedTextWeight == 8

KeyPrefixLen == 50

\* A map key: the persistent identifier, or `${content.slice(0, 50)}_${idx}`.
IdKey(id) == [id |-> id, prefix |-> <<>>, idx |-> 0]

PrefixKey(content, idx) == [id |-> "", prefix |-> Take(content, KeyPrefixLen), idx |-> idx]

\* r.resourceId || `${r.content.slice(0, 50)}_${idx}`
VectorKey(r, idx) == IF r.resourceId # "" THEN IdKey(r.resourceId) ELSE PrefixKey(r.content, idx)

\* r.id || `${r.content.slice(0, 50)}_${idx}`
TextKey(r, idx) == IF r.id # "" THEN IdKey(r.id) ELSE PrefixKey(r.content, idx)

\* Mutant: the content is compared without being upper-cased.
ContainsIdAsWritten(content, ids) == \E k \in 1..Len(ids) : includes(content, ids[k])

\* explicitIds.some(id => r.content.toUpperCase().includes(id))
ContainsId(content, ids) == \E k \in 1..Len(ids) : includes(toUpperCase(content), ids[k])

\* Mutant: the lexical list carries no weight.
NoTextWeight(content, ids) == 0

\* const weight = containsId ? 0.8 : 0.4
TextWeightOf(content, ids) == IF ContainsId(content, ids) THEN BoostedTextWeight ELSE TextWeight

\* vectorScores.get(key): the contributions of the first n vector results.
RECURSIVE VectorScore(_, _, _)
VectorScore(vs, key, n) ==
  IF n = 0 THEN 0
  ELSE VectorScore(vs, key, n - 1)
       + (IF VectorKey(vs[n], n - 1) = key THEN Weighted(VectorWeight, n - 1) ELSE 0)

\* textScores.get(key).score: the contributions of the first n text results.
RECURSIVE TextScore(_, _, _, _)
TextScore(ts, ids, key, n) ==
  IF n = 0 THEN 0
  ELSE TextScore(ts, ids, key, n - 1)
       + (IF TextKey(ts[n], n - 1) = key
            THEN Weighted(TextWeightOf(ts[n].content, ids), n - 1) ELSE 0)

\* textScores.get(key).content: the content of the last text result under key.
TextContent(ts, key) ==
  ts[CHOOSE n \in 1..Len(ts) :
       /\ TextKey(ts[n], n - 1) = key
       /\ \A m \in (n + 1)..Len(ts) : TextKey(ts[m], m - 1) # key].content

\* Map.prototype.has / get / set on a map kept as its entries in insertion order.
MapHas(m, key) == \E i \in 1..Len(m) : m[i].key = key

MapGet(m, key) == m[CHOOSE i \in 1..Len(m) : m[i].key = key]

MapSet(m, key, score, content) ==
  IF MapHas(m, key)
    THEN [i \in 1..Len(m) |->
            IF m[i].key = key THEN [key |-> key, score |-> score, content |-> content] ELSE m[i]]
    ELSE Append(m, [key |-> key, score |-> score, content |-> content])

\* "Bring in vector results": fusedMap after the first n vector results.
RECURSIVE FusedVector(_, _)
FusedVector(vs, n) ==
  IF n = 0 THEN <<>>
  ELSE LET m   == FusedVector(vs, n - 1)
           key == VectorKey(vs[n], n - 1)
           old == IF MapHas(m, key) THEN MapGet(m, key).score ELSE 0
       IN MapSet(m, key, old + VectorScore(vs, key, Len(vs)), vs[n].content)

\* The keys of textScores in insertion order.
TextKeys(ts) == Dedupe([n \in 1..Len(ts) |-> TextKey(ts[n], n - 1)])

\* "Merge text results": fusedMap after the first n entries of textScores.
\* existing?.content || val.content: an empty existing content is falsy.
RECURSIVE FusedText(_, _, _, _)
FusedText(vs, ts, ids, n) ==
  IF n = 0 THEN FusedVector(vs, Len(vs))
  ELSE LET m   == FusedText(vs, ts, ids, n - 1)
           key == TextKeys(ts)[n]
           has == MapHas(m, key)
           old == IF has THEN MapGet(m, key).score ELSE 0
           con == IF has /\ MapGet(m, key).content # <<>>
                    THEN MapGet(m, key).content ELSE TextContent(ts, key)
       IN MapSet(m, key, old + TextScore(ts, ids, key, Len(ts)), con)

FusedMap(vs, ts, ids) == FusedText(vs, ts, ids, Len(TextKeys(ts)))

\* Mutant: an entry is put ahead of the entries of equal score.
RECURSIVE InsertBeforeEqual(_, _)
InsertBeforeEqual(sorted, e) ==
  IF sorted = <<>> THEN <<e>>
  ELSE IF Head(sorted).score > e.score
         THEN <<Head(sorted)>> \o InsertBeforeEqual(Tail(sorted), e)
  ELSE <<e>> \o sorted

\* .sort((a, b) => b[1].score - a[1].score): stable, descending by score.
RECURSIVE InsertByScore(_, _)
InsertByScore(sorted, e) ==
  IF sorted = <<>> THEN <<e>>
  ELSE IF Head(sorted).score >= e.score THEN <<Head(sorted)>> \o InsertByScore(Tail(sorted), e)
  ELSE <<e>> \o sorted

\* Mutant: the entries are left in the insertion order of the map.
Unsorted(m) == m

RECURSIVE SortByScore(_)
SortByScore(m) ==
  IF m = <<>> THEN <<>>
  ELSE InsertByScore(SortByScore(SubSeq(m, 1, Len(m) - 1)), m[Len(m)])

\* fused: the entries of fusedMap sorted, cut to limit, as the returned
\* { name, similarity, resourceId }.
Fused(m, lim) ==
  LET top == Take(SortByScore(m), lim)
  IN [i \in 1..Len(top) |->
        [name |-> top[i].content, similarity |-> top[i].score, resourceId |-> top[i].key]]

\* The whole fusion step on the candidate lists vs and ts.
Fuse(vs, ts, ids, lim) == Fused(FusedMap(vs, ts, ids), lim)

(***************************************************************************)
(* The stores, the queries and the bounds of the model                     *)
(***************************************************************************)
\* Largest limit of a direct findRelevantContent call.
MaxLimit == 2

\* Largest number of hits one vector search returns.
MaxVec == 2

\* Math.max(limit, 8) of the corpus vector search
MinVectorLimit == 8

\* Math.max(limit, 12) of the hybrid lexical search
MinTextLimit == 12

\* Passages of the resources collection, in the store's natural order:
\* "udp p7", "Problem R1: udp", "P3. tcp".
Passages ==
  << [oid |-> "o1", id |-> "r1", content |-> <<"u","d","p"," ","p","7">>],
     [oid |-> "o2", id |-> "r2",
      content |-> <<"P","r","o","b","l","e","m"," ","R","1",":"," ","u","d","p">>],
     [oid |-> "o3", id |-> "r3", content |-> <<"P","3","."," ","t","c","p">>] >>

\* One embedded chunk per passage (embeddings collection).
Chunks == [i \in 1..Len(Passages) |->
             [resourceId |-> Passages[i].id, content |-> Passages[i].content]]

\* The corpus of the identifier scenario: "P1: Define latency.",
\* "Propagation delay is distance/speed.",
\* "P1 follow-up: compute for 1000km link.".
ScenarioPassages ==
  << [oid |-> "o4", id |-> "s1",
      content |-> <<"P","1",":"," ","D","e","f","i","n","e"," ","l","a","t",
                  "e","n","c","y",".">>],
     [oid |-> "o5", id |-> "s2",
      content |-> <<"P","r","o","p","a","g","a","t","i","o","n"," ","d","e",
                  "l","a","y"," ","i","s"," ","d","i","s","t","a","n","c",
                  "e","/","s","p","e","e","d",".">>],
     [oid |-> "o6", id |-> "s3",
      content |-> <<"P","1"," ","f","o","l","l","o","w","-","u","p",":"," ",
                  "c","o","m","p","u","t","e"," ","f","o","r"," ","1","0",
                  "0","0","k","m"," ","l","i","n","k",".">>] >>

ScenarioChunks == [i \in 1..Len(ScenarioPassages) |->
                     [resourceId |-> ScenarioPassages[i].id,
                      content |-> ScenarioPassages[i].content]]

\* The corpora a run starts from: every passage embedded, or none embedded.
Corpora ==
  { [resources |-> Passages, embeddings |-> Chunks],
    [resources |-> Passages, embeddings |-> <<>>] }

\* The queries of the model: "P1", "P3", "R1 P3", "P7 tcp", "udp", "", " ",
\* "(tcp".
Queries ==
  { <<"P","1">>,
    <<"P","3">>,
    <<"R","1"," ","P","3">>,
    <<"P","7"," ","t","c","p">>,
    <<"u","d","p">>,
    <<>>,
    <<" ">>,
    <<"(","t","c","p">> }

\* The threads, the requests and the message texts of the chat route.
ThreadIds == {"t1", "t2"}

Reqs == {"q1"}

\* Largest number of POST requests of a run.
MaxPosts == 2

\* Largest number of hits one memory search returns.
MaxHits == 1

\* The user messages of the chat requests: "udp", "P3" and "" (no last
\* message).
PostQueries == { <<"u","d","p">>, <<"P","3">>, <<>> }

\* The model's reply, and the text used when the completion has no content.
Replies == { <<"o","k">>, <<>> }

Apology == <<"I"," ","a","p","o","l","o","g","i","z","e">>

\* findRelevantContent(userQuery, 4)
PostLimit == 4

\* .slice(-12)
HistoryLen == 12

\* limit: 6 of the memory vector search
MemoryLimit == 6

\* Sequences without repetition of at most n elements of the sequence s.
RECURSIVE Arrangements(_, _)
Arrangements(s, n) ==
  IF n = 0 THEN {<<>>}
  ELSE LET shorter == Arrangements(s, n - 1) IN
       shorter \cup
         { Append(a, s[i]) : <<a, i>> \in
             { x \in shorter \X (1..Len(s)) :
                 /\ Len(x[1]) = n - 1
                 /\ \A k \in 1..Len(x[1]) : x[1][k] # s[x[2]] } }

\* collection.find(filter).limit(n).toArray(): the documents of the set
\* matches, in store order, cut to n.
Find(coll, matches, n) == Take(FilterSeq(coll, matches), n)

VARIABLES
  resources,      \* resources collection (sequence in natural order)
  embeddings,     \* embeddings collection
  client,         \* module-level client of lib/db/mongodb is set
  db,             \* module-level db and collection handles are set
  rpc,            \* position of the findRelevantContent call
  caller,         \* "none", "direct", or the request that called
  userQuery,      \* its arguments
  limit,
  embeddingCount, \* its locals
  vectorResults,
  textResults,
  strong,
  fusedMap,       \* entries of fusedMap in insertion order
  result,         \* the returned list
  outcome,        \* "none", "returned" or "thrown"
  path,           \* the return statement taken
  failed,         \* the sub-step whose error reached the outer catch
  vectorFailed,   \* the inner catch of the vector search ran
  fuseRan,        \* the fusion step was executed
  embedCalls,     \* generateEmbedding calls of this findRelevantContent call
  vectorCalls,    \* $vectorSearch calls of this findRelevantContent call
  threads,        \* chat_threads: the messages of each thread
  chatMemory,     \* chat_memory: the memory items in insertion order
  post,           \* the locals of each POST /api/rag-chapter1 request
  posts,          \* number of POST requests received
  backfill,       \* the backfill script: its cursor and loop position
  ragChat,        \* state of one RAGChat component in the browser
  calls,          \* concurrent findRelevantContent calls of one server process
  link            \* connection of the module-level client, and how often it was set up

storeVars == <<resources, embeddings>>

connVars == <<client, db>>

localVars == <<embeddingCount, vectorResults, textResults, strong, fusedMap>>

ghostVars == <<failed, vectorFailed, fuseRan, embedCalls, vectorCalls>>

frcVars == <<rpc, caller, userQuery, limit, localVars, result, outcome, path, ghostVars>>

chatVars == <<threads, chatMemory, post, posts>>

sideVars == <<backfill, ragChat, calls, link>>

vars == <<storeVars, connVars, frcVars, chatVars, sideVars>>

InitStore ==
  \E c \in Corpora :
    /\ resources = c.resources
    /\ embeddings = c.embeddings

InitFrc ==
  /\ client = FALSE
  /\ db = FALSE
  /\ rpc = "idle"
  /\ caller = "none"
  /\ userQuery = <<>>
  /\ limit = 0
  /\ embeddingCount = 0
  /\ vectorResults = <<>>
  /\ textResults = <<>>
  /\ strong = <<>>
  /\ fusedMap = <<>>
  /\ result = <<>>
  /\ outcome = "none"
  /\ path = "none"
  /\ failed = "none"
  /\ vectorFailed = FALSE
  /\ fuseRan = FALSE
  /\ embedCalls = 0
  /\ vectorCalls = 0

\* The locals of a request that is not in flight.
IdlePost ==
  [pc |-> "idle", threadId |-> "", userQuery |-> <<>>, turnIndex |-> 0,
   history |-> <<>>, priorCount |-> 0, memoryContext |-> <<>>,
   searchCount |-> 0, sent |-> <<>>, aiResponse |-> <<>>, status |-> 0,
   failed |-> "none", memFailed |-> FALSE, memEmbedCalls |-> 0,
   memSearchCalls |-> 0, memoryHits |-> <<>>, retrieved |-> FALSE, modelCalled |-> FALSE]

InitChat ==
  /\ threads = [t \in ThreadIds |-> <<>>]
  /\ chatMemory = <<>>
  /\ post = [r \in Reqs |-> IdlePost]
  /\ posts = 0

\* The backfill script is not running.
IdleBackfill ==
  [pc |-> "idle", cursor |-> <<>>, threadId |-> "", messages |-> <<>>, i |-> 0, runs |-> 0]

\* RAGChat after its first render: useState([]), useState(''), useState(false),
\* useState(null); nothing sent.
IdleChat ==
  [messages |-> <<>>, input |-> <<>>, isLoading |-> FALSE, threadId |-> "null",
   shown |-> FALSE, fetching |-> 0, parsing |-> 0, submits |-> 0,
   last |-> [sent |-> FALSE, input |-> <<>>, isLoading |-> FALSE]]

\* A findRelevantContent call that has not been made.
IdleCall ==
  [pc |-> "idle", userQuery |-> <<>>, limit |-> 0, result |-> <<>>, outcome |-> "none",
   handles |-> "none"]

\* The callers of the concurrent calls.
CallIds == {"a", "b"}

\* No client yet: conn is "none", "connecting", "open" or "failed"; clients
\* and dbs count the assignments to the module-level client and db.
NoLink == [conn |-> "none", clients |-> 0, dbs |-> 0]

InitSide ==
  /\ backfill = IdleBackfill
  /\ ragChat = IdleChat
  /\ calls = [c \in CallIds |-> IdleCall]
  /\ link = NoLink

Init == InitStore /\ InitFrc /\ InitChat /\ InitSide

(***************************************************************************)
(* findRelevantContent(userQuery, limit)                                   *)
(***************************************************************************)
\* r.id || r._id?.toString?.()
ResourceId(r) == IF r.id # "" THEN r.id ELSE r.oid

\* Math.max(limit, 8)
VectorLimit(lim) == Max(lim, MinVectorLimit)

\* Math.max(limit, 12)
TextLimit(lim) == Max(lim, MinTextLimit)

\* What $vectorSearch may answer: any ranking of distinct chunks, at most
\* its limit long (the ranking depends on the embedding vectors, which are
\* not modelled).
VectorAnswers(lim) ==
  Arrangements(embeddings, Min(Min(VectorLimit(lim), MaxVec), Len(embeddings)))

\* resources.find({ content: { $regex: combined, $options: 'i' } })
\*   .limit(Math.max(limit, 12)), mapped to { content, id }.
TextCandidates(q, lim) ==
  LET tr == Find(resources,
                 {r \in Range(resources) : RegexMatch(r.content, Combined(q))},
                 TextLimit(lim))
  IN [i \in 1..Len(tr) |-> [content |-> tr[i].content, id |-> ResourceId(tr[i])]]

\* resources.find({ content: { $regex: strongExpr, $options: 'im' } }).limit(limit)
StrongCandidates(q, lim) ==
  Find(resources, {r \in Range(resources) : StrongMatch(r.content, ExplicitIds(q))}, lim)

\* strong.map(s => ({ name, similarity: 1.0, resourceId }))
StrongResult(ss) ==
  [i \in 1..Len(ss) |->
     [name |-> ss[i].content, similarity |-> StrongSimilarity,
      resourceId |-> IdKey(ResourceId(ss[i]))]]

\* resources.find({ content: { $regex: regexPattern, $options: 'i' } })
\*   .limit(limit), mapped to { name, similarity: 0.7, resourceId }.
FallbackResult(q, lim) ==
  LET tr == Find(resources,
                 {r \in Range(resources) : RegexMatch(r.content, SearchTerms(q))},
                 lim)
  IN [i \in 1..Len(tr) |->
        [name |-> tr[i].content, similarity |-> FallbackSimilarity,
         resourceId |-> IdKey(ResourceId(tr[i]))]]

\* if (embeddingCount > 0)
HasEmbeddings(n) == n > 0

\* if (explicitIds.length > 0)
HasExplicitIds(q) == Len(ExplicitIds(q)) > 0

\* Mutant: the anchored matches are never returned directly.
StrongNeverReturns(ss) == FALSE

\* if (strong.length > 0) return ...
StrongReturns(ss) == Len(ss) > 0

\* if (fused.length > 0) return ...
FusedReturns(fs) == Len(fs) > 0

\* return statement: the call completes with the list rs.
ReturnList(rs, via) ==
  /\ result' = rs
  /\ outcome' = "returned"
  /\ path' = via
  /\ rpc' = "done"

\* Mutant: the outer catch rethrows.
CatchAllRethrows(step) ==
  /\ result' = <<>>
  /\ outcome' = "thrown"
  /\ path' = "caught"
  /\ rpc' = "done"
  /\ failed' = step

\* catch (error) { console.error(...); return []; } of the whole body.
CatchAll(step) ==
  /\ ReturnList(<<>>, "caught")
  /\ failed' = step

\* Mutant: a failed vector search is issued once more.
VectorCatchRetries ==
  /\ vectorResults' = <<>>
  /\ vectorFailed' = TRUE
  /\ rpc' = IF vectorCalls = 0 THEN "vector" ELSE "lexical"
  /\ UNCHANGED <<result, outcome, path, failed>>

\* catch (vectorError) { console.error(...) } around the vector search.
VectorCatch ==
  /\ vectorResults' = <<>>
  /\ vectorFailed' = TRUE
  /\ rpc' = "lexical"
  /\ UNCHANGED <<result, outcome, path, failed>>

\* A direct call of the exported function.
FRC_Call(q, lim) ==
  /\ rpc = "idle"
  /\ rpc' = "getCollections"
  /\ caller' = "direct"
  /\ userQuery' = q
  /\ limit' = lim
  /\ \A r \in Reqs : post[r].pc = "idle"
  /\ UNCHANGED <<sideVars, storeVars, connVars, localVars, result, outcome, path, ghostVars, chatVars>>

\* getCollections() -> connectToDatabase(): the client is created and
\* connected once, the handles are set once; ensureIndexes swallows its errors.
FRC_GetCollections ==
  /\ rpc = "getCollections"
  /\ \/ /\ client' = TRUE
        /\ db' = TRUE
        /\ rpc' = "count"
        /\ UNCHANGED <<result, outcome, path, failed>>
     \/ /\ ~client                    \* await client.connect() throws
        /\ client' = TRUE
        /\ UNCHANGED db
        /\ CatchAll("getCollections")
  /\ UNCHANGED <<sideVars, chatVars, storeVars, caller, userQuery, limit, localVars,
                 vectorFailed, fuseRan, embedCalls, vectorCalls>>

\* embeddings.countDocuments(); resources.countDocuments()
FRC_Count ==
  /\ rpc = "count"
  /\ \/ /\ embeddingCount' = Len(embeddings)
        /\ rpc' = IF HasEmbeddings(Len(embeddings)) THEN "embed" ELSE "fallback"
        /\ UNCHANGED <<result, outcome, path, failed>>
     \/ /\ CatchAll("count")
        /\ UNCHANGED embeddingCount
  /\ UNCHANGED <<sideVars, chatVars, storeVars, connVars, caller, userQuery, limit, vectorResults,
                 textResults, strong, fusedMap, vectorFailed, fuseRan, embedCalls, vectorCalls>>

\* const userQueryEmbedded = await generateEmbedding(userQuery)
FRC_Embed ==
  /\ rpc = "embed"
  /\ embedCalls' = embedCalls + 1
  /\ \/ /\ rpc' = "vector"
        /\ UNCHANGED <<result, outcome, path, failed>>
     \/ CatchAll("embed")
  /\ UNCHANGED <<sideVars, chatVars, storeVars, connVars, caller, userQuery, limit, localVars,
                 vectorFailed, fuseRan, vectorCalls>>

\* try { vectorResults = await embeddings.aggregate([...]).toArray() }
FRC_Vector ==
  /\ rpc = "vector"
  /\ vectorCalls' = vectorCalls + 1
  /\ \/ /\ \E vs \in VectorAnswers(limit) : vectorResults' = vs
        /\ rpc' = "lexical"
        /\ UNCHANGED <<result, outcome, path, failed, vectorFailed>>
     \/ VectorCatch
  /\ UNCHANGED <<sideVars, chatVars, storeVars, connVars, caller, userQuery, limit, embeddingCount,
                 textResults, strong, fusedMap, fuseRan, embedCalls>>

\* Lexical search (regex) with problem-id boosting
FRC_Lexical ==
  /\ rpc = "lexical"
  /\ \/ /\ Combined(userQuery) = <<>>            \* if (combined) is false
        /\ textResults' = <<>>
        /\ rpc' = IF HasExplicitIds(userQuery) THEN "strong" ELSE "fuse"
        /\ UNCHANGED <<result, outcome, path, failed>>
     \/ /\ Combined(userQuery) # <<>>
        /\ RegexValid(Combined(userQuery))
        /\ textResults' = TextCandidates(userQuery, limit)
        /\ rpc' = IF HasExplicitIds(userQuery) THEN "strong" ELSE "fuse"
        /\ UNCHANGED <<result, outcome, path, failed>>
     \/ /\ Combined(userQuery) # <<>>            \* resources.find throws
        /\ CatchAll("lexical")
        /\ UNCHANGED textResults
  /\ UNCHANGED <<sideVars, chatVars, storeVars, connVars, caller, userQuery, limit, embeddingCount,
                 vectorResults, strong, fusedMap, vectorFailed, fuseRan, embedCalls, vectorCalls>>

\* Strong anchored match for explicit ids, returned directly when it hits
FRC_Strong ==
  /\ rpc = "strong"
  /\ \/ /\ strong' = StrongCandidates(userQuery, limit)
        /\ IF StrongReturns(StrongCandidates(userQuery, limit))
             THEN /\ ReturnList(StrongResult(StrongCandidates(userQuery, limit)), "short")
                  /\ UNCHANGED failed
             ELSE /\ rpc' = "fuse"
                  /\ UNCHANGED <<result, outcome, path, failed>>
     \/ /\ CatchAll("strong")                     \* resources.find throws
        /\ UNCHANGED strong
  /\ UNCHANGED <<sideVars, chatVars, storeVars, connVars, caller, userQuery, limit, embeddingCount,
                 vectorResults, textResults, fusedMap, vectorFailed, fuseRan, embedCalls,
                 vectorCalls>>

\* Reciprocal Rank Fusion: vectorScores, textScores and fusedMap
FRC_Fuse ==
  /\ rpc = "fuse"
  /\ fuseRan' = TRUE
  /\ fusedMap' = FusedMap(vectorResults, textResults, ExplicitIds(userQuery))
  /\ rpc' = "sort"
  /\ UNCHANGED <<sideVars, chatVars, storeVars, connVars, caller, userQuery, limit, embeddingCount,
                 vectorResults, textResults, strong, result, outcome, path,
                 failed, vectorFailed, embedCalls, vectorCalls>>

\* The orders of the entries of m that descend by score, entries of equal
\* score in any order.
DescendingOrders(m) ==
  { p \in Arrangements(m, Len(m)) :
      /\ Len(p) = Len(m)
      /\ \A i \in 1..(Len(p) - 1) : p[i].score >= p[i + 1].score }

\* Mutant: a sort that leaves the order of entries of equal score open.
FRC_SortAnyOrder ==
  /\ rpc = "sort"
  /\ \E p \in DescendingOrders(fusedMap) :
       LET top == Take(p, limit)
           fused == [i \in 1..Len(top) |->
                       [name |-> top[i].content, similarity |-> top[i].score,
                        resourceId |-> top[i].key]]
       IN IF FusedReturns(fused)
            THEN ReturnList(fused, "fused")
            ELSE /\ rpc' = "fallback"
                 /\ UNCHANGED <<result, outcome, path>>
  /\ UNCHANGED <<sideVars, chatVars, storeVars, connVars, caller, userQuery, limit, localVars,
                 ghostVars>>

\* fused = entries sorted, cut and mapped; an empty fused list falls out of
\* the if-block into the text-search fallback below it.
FRC_Sort ==
  /\ rpc = "sort"
  /\ LET fused == Fused(fusedMap, limit) IN
       IF FusedReturns(fused)
         THEN ReturnList(fused, "fused")
         ELSE /\ rpc' = "fallback"
              /\ UNCHANGED <<result, outcome, path>>
  /\ UNCHANGED <<sideVars, chatVars, storeVars, connVars, caller, userQuery, limit, localVars,
                 ghostVars>>

\* Fallback to text search
FRC_Fallback ==
  /\ rpc = "fallback"
  /\ \/ /\ RegexValid(SearchTerms(userQuery))
        /\ ReturnList(FallbackResult(userQuery, limit), "fallback")
        /\ UNCHANGED failed
     \/ CatchAll("fallback")                      \* resources.find throws
  /\ UNCHANGED <<sideVars, chatVars, storeVars, connVars, caller, userQuery, limit, localVars,
                 vectorFailed, fuseRan, embedCalls, vectorCalls>>

\* The locals of a completed call are gone.
FrcReset ==
  /\ rpc' = "idle"
  /\ caller' = "none"
  /\ userQuery' = <<>>
  /\ limit' = 0
  /\ embeddingCount' = 0
  /\ vectorResults' = <<>>
  /\ textResults' = <<>>
  /\ strong' = <<>>
  /\ fusedMap' = <<>>
  /\ result' = <<>>
  /\ outcome' = "none"
  /\ path' = "none"
  /\ failed' = "none"
  /\ vectorFailed' = FALSE
  /\ fuseRan' = FALSE
  /\ embedCalls' = 0
  /\ vectorCalls' = 0

\* The direct caller takes the list.
FRC_Return ==
  /\ rpc = "done"
  /\ caller = "direct"
  /\ FrcReset
  /\ UNCHANGED <<sideVars, storeVars, connVars, chatVars>>

(***************************************************************************)
(* POST /api/rag-chapter1                                                  *)
(***************************************************************************)
\* Mutant: the history as it was before the current user message was stored.
LastNBeforePush(s, n) == SubSeq(s, Max(1, Len(s) - n), Len(s) - 1)

\* messages.slice(-n)
LastN(s, n) == SubSeq(s, Max(1, Len(s) - n + 1), Len(s))

\* Mutant: the memory search without its thread filter.
MemoryOfAnyThread(t) == chatMemory

\* filter: { threadId } of countDocuments and of $vectorSearch
MemoryOf(t) == FilterSeq(chatMemory, {m \in Range(chatMemory) : m.threadId = t})

\* Mutant: memory retrieval runs on an empty thread too.
MemoryAlwaysSearched(n) == n >= 0

\* if (priorCount > 0)
MemoryExists(n) == n > 0

\* What the memory $vectorSearch may answer for thread t: any ranking of
\* distinct items passing the filter, at most its limit long.
MemoryAnswers(t) ==
  Arrangements(MemoryOf(t), Min(Min(MemoryLimit, MaxHits), Len(MemoryOf(t))))

\* memoryHits.map(h => `[${h.role}] ${h.content}`)
MemoryContextOf(hits) ==
  [i \in 1..Len(hits) |-> [role |-> hits[i].role, content |-> hits[i].content]]

\* completion.choices[0]?.message?.content || 'I apologize, ...'
ReplyText(content) == IF content # <<>> THEN content ELSE Apology

\* docs of the memory write: the user item at turnIndex, the reply after it.
MemoryDocs(t, turn, query, reply) ==
  << [threadId |-> t, role |-> "user", turn |-> turn, content |-> query],
     [threadId |-> t, role |-> "assistant", turn |-> turn + 1, content |-> reply] >>

\* catch (error) of the handler: the 500 response.
Fail500(r, step) ==
  post' = [post EXCEPT ![r].pc = "done", ![r].status = 500, ![r].failed = step]

\* Mutant: a memory-retrieval error reaches the handler's catch.
MemoryCatchRethrows(r, p) ==
  post' = [p EXCEPT ![r].pc = "done", ![r].status = 500, ![r].memFailed = TRUE,
                    ![r].failed = "memory"]

\* catch (e) { console.log('Memory retrieval skipped') }: on to corpus
\* retrieval; p holds the locals when the error was raised.
MemoryCatch(r, p) ==
  post' = [p EXCEPT ![r].pc = "retrieve", ![r].memFailed = TRUE]

\* await req.json(); lastMessage?.content || ''; input.threadId || nanoid()
POST_Start(r, t, q) ==
  /\ post[r].pc = "idle"
  /\ rpc = "idle"
  /\ posts < MaxPosts
  /\ posts' = posts + 1
  /\ \/ post' = [post EXCEPT ![r].pc = "getCollections", ![r].threadId = t,
                             ![r].userQuery = q]
     \/ Fail500(r, "json")
  /\ UNCHANGED <<sideVars, storeVars, connVars, frcVars, threads, chatMemory>>

\* const { threads, chatMemory, threadSummaries } = await getCollections()
POST_GetCollections(r) ==
  /\ post[r].pc = "getCollections"
  /\ \/ /\ client' = TRUE
        /\ db' = TRUE
        /\ post' = [post EXCEPT ![r].pc = "pushUser"]
     \/ /\ ~client
        /\ client' = TRUE
        /\ UNCHANGED db
        /\ Fail500(r, "getCollections")
  /\ UNCHANGED <<sideVars, storeVars, frcVars, threads, chatMemory, posts>>

\* Mutant: the handler goes on without having stored the user message.
POST_SkipUserWrite(r) ==
  /\ post[r].pc = "pushUser"
  /\ post' = [post EXCEPT ![r].pc = "findThread"]
  /\ UNCHANGED <<sideVars, storeVars, connVars, frcVars, threads, chatMemory, posts>>

\* threads.updateOne(..., { $push: { messages: user message } }, { upsert: true })
POST_PushUser(r) ==
  /\ post[r].pc = "pushUser"
  /\ \/ /\ threads' = [threads EXCEPT ![post[r].threadId] =
                         Append(@, [role |-> "user", content |-> post[r].userQuery])]
        /\ post' = [post EXCEPT ![r].pc = "findThread"]
     \/ /\ Fail500(r, "pushUser")
        /\ UNCHANGED threads
  /\ UNCHANGED <<sideVars, storeVars, connVars, frcVars, chatMemory, posts>>

\* threadDoc = await threads.findOne(...); turnIndex; history
POST_FindThread(r) ==
  /\ post[r].pc = "findThread"
  /\ \/ post' = [post EXCEPT ![r].pc = "memCount",
                             ![r].turnIndex = Len(threads[post[r].threadId]) + 1,
                             ![r].history = LastN(threads[post[r].threadId], HistoryLen)]
     \/ Fail500(r, "findThread")
  /\ UNCHANGED <<sideVars, storeVars, connVars, frcVars, threads, chatMemory, posts>>

\* const priorCount = await chatMemory.countDocuments({ threadId })
POST_MemCount(r) ==
  /\ post[r].pc = "memCount"
  /\ \/ LET n == Len(MemoryOf(post[r].threadId)) IN
          post' = [post EXCEPT ![r].priorCount = n,
                               ![r].pc = IF MemoryExists(n) THEN "memEmbed" ELSE "retrieve"]
     \/ MemoryCatch(r, post)
  /\ UNCHANGED <<sideVars, storeVars, connVars, frcVars, threads, chatMemory, posts>>

\* const queryVec = await generateEmbedding(userQuery)
POST_MemEmbed(r) ==
  /\ post[r].pc = "memEmbed"
  /\ \/ post' = [post EXCEPT ![r].pc = "memSearch",
                             ![r].memEmbedCalls = @ + 1]
     \/ MemoryCatch(r, [post EXCEPT ![r].memEmbedCalls = @ + 1])
  /\ UNCHANGED <<sideVars, storeVars, connVars, frcVars, threads, chatMemory, posts>>

\* const memoryHits = await chatMemory.aggregate([{ $vectorSearch ... }]).toArray()
POST_MemSearch(r) ==
  /\ post[r].pc = "memSearch"
  /\ \/ \E hits \in MemoryAnswers(post[r].threadId) :
          post' = [post EXCEPT ![r].pc = "retrieve",
                               ![r].memSearchCalls = @ + 1,
                               ![r].memoryHits = hits,
                               ![r].memoryContext = MemoryContextOf(hits)]
     \/ MemoryCatch(r, [post EXCEPT ![r].memSearchCalls = @ + 1])
  /\ UNCHANGED <<sideVars, storeVars, connVars, frcVars, threads, chatMemory, posts>>

\* const searchResults = await findRelevantContent(userQuery, 4): the call
POST_Retrieve(r) ==
  /\ post[r].pc = "retrieve"
  /\ rpc = "idle"
  /\ rpc' = "getCollections"
  /\ caller' = r
  /\ userQuery' = post[r].userQuery
  /\ limit' = PostLimit
  /\ post' = [post EXCEPT ![r].pc = "retrieving"]
  /\ UNCHANGED <<sideVars, storeVars, connVars, localVars, result, outcome, path, ghostVars,
                 threads, chatMemory, posts>>

\* ... and its return; an exception would reach the handler's catch.  The
\* passages go into the prompt only; the handler keeps searchResults.length.
POST_Retrieved(r) ==
  /\ post[r].pc = "retrieving"
  /\ rpc = "done"
  /\ caller = r
  /\ IF outcome = "returned"
       THEN post' = [post EXCEPT ![r].pc = "summary", ![r].searchCount = Len(result),
                                 ![r].retrieved = TRUE]
       ELSE Fail500(r, "findRelevantContent")
  /\ FrcReset
  /\ UNCHANGED <<sideVars, storeVars, connVars, threads, chatMemory, posts>>

\* const summaryDoc = await threadSummaries.findOne(...)
POST_Summary(r) ==
  /\ post[r].pc = "summary"
  /\ \/ post' = [post EXCEPT ![r].pc = "model"]
     \/ Fail500(r, "summary")
  /\ UNCHANGED <<sideVars, storeVars, connVars, frcVars, threads, chatMemory, posts>>

\* const completion = await openai.chat.completions.create({ messages: [system,
\* ...history, { role: "user", content: userQuery }] })
POST_Model(r) ==
  /\ post[r].pc = "model"
  /\ \/ \E reply \in Replies :
          post' = [post EXCEPT ![r].pc = "pushAssistant",
                               ![r].modelCalled = TRUE,
                               ![r].sent = Append(post[r].history,
                                             [role |-> "user", content |-> post[r].userQuery]),
                               ![r].aiResponse = ReplyText(reply)]
     \/ Fail500(r, "model")
  /\ UNCHANGED <<sideVars, storeVars, connVars, frcVars, threads, chatMemory, posts>>

\* threads.updateOne(..., { $push: { messages: assistant message } })
POST_PushAssistant(r) ==
  /\ post[r].pc = "pushAssistant"
  /\ \/ /\ threads' = [threads EXCEPT ![post[r].threadId] =
                         Append(@, [role |-> "assistant", content |-> post[r].aiResponse])]
        /\ post' = [post EXCEPT ![r].pc = "memWrite"]
     \/ /\ Fail500(r, "pushAssistant")
        /\ UNCHANGED threads
  /\ UNCHANGED <<sideVars, storeVars, connVars, frcVars, chatMemory, posts>>

\* try { embed both items; await chatMemory.insertMany(docs) } catch (e) { skipped }
POST_MemWrite(r) ==
  /\ post[r].pc = "memWrite"
  /\ \/ chatMemory' = chatMemory \o MemoryDocs(post[r].threadId, post[r].turnIndex,
                                                post[r].userQuery, post[r].aiResponse)
     \/ UNCHANGED chatMemory
  /\ post' = [post EXCEPT ![r].pc = "respond"]
  /\ UNCHANGED <<sideVars, storeVars, connVars, frcVars, threads, posts>>

\* return Response.json({ content, searchResults, hasContext, threadId })
POST_Respond(r) ==
  /\ post[r].pc = "respond"
  /\ post' = [post EXCEPT ![r].pc = "done", ![r].status = 200]
  /\ UNCHANGED <<sideVars, storeVars, connVars, frcVars, threads, chatMemory, posts>>

\* The response is sent; the locals of the request are gone.
POST_Finish(r) ==
  /\ post[r].pc = "done"
  /\ post' = [post EXCEPT ![r] = IdlePost]
  /\ UNCHANGED <<sideVars, storeVars, connVars, frcVars, threads, chatMemory, posts>>

PostStep(r) ==
  \/ POST_GetCollections(r)
  \/ POST_PushUser(r)
  \/ POST_FindThread(r)
  \/ POST_MemCount(r)
  \/ POST_MemEmbed(r)
  \/ POST_MemSearch(r)
  \/ POST_Retrieve(r)
  \/ POST_Retrieved(r)
  \/ POST_Summary(r)
  \/ POST_Model(r)
  \/ POST_PushAssistant(r)
  \/ POST_MemWrite(r)
  \/ POST_Respond(r)
  \/ POST_Finish(r)

FrcStep ==
  \/ FRC_GetCollections
  \/ FRC_Count
  \/ FRC_Embed
  \/ FRC_Vector
  \/ FRC_Lexical
  \/ FRC_Strong
  \/ FRC_Fuse
  \/ FRC_Sort
  \/ FRC_Fallback

\* The exported retrieval function called directly, one call at a time.
Next ==
  \/ \E q \in Queries : \E lim \in 1..MaxLimit : FRC_Call(q, lim)
  \/ FrcStep
  \/ FRC_Return

Spec == Init /\ [][Next]_vars

\* The same calls with every limit of the contract's range, 1 to 12.
MaxContractLimit == 12

NextContract ==
  \/ \E q \in Queries : \E lim \in 1..MaxContractLimit : FRC_Call(q, lim)
  \/ FrcStep
  \/ FRC_Return

SpecContract == Init /\ [][NextContract]_vars

\* The same calls on the corpus of the identifier scenario, all embedded.
InitScenario ==
  /\ resources = ScenarioPassages
  /\ embeddings = ScenarioChunks
  /\ InitFrc
  /\ InitChat
  /\ InitSide

SpecScenario == InitScenario /\ [][Next]_vars

\* The chat route, one request at a time, with the retrieval call it makes.
NextChat ==
  \/ \E r \in Reqs : \E t \in ThreadIds : \E q \in PostQueries : POST_Start(r, t, q)
  \/ \E r \in Reqs : PostStep(r)
  \/ FrcStep

SpecChat == Init /\ [][NextChat]_vars

\* The chat route on a store that already holds one exchange of thread "t2"
\* (its two messages and its two memory items) from an earlier request.
PriorThread == "t2"

PriorMessages ==
  << [role |-> "user", content |-> <<"t","c","p">>],
     [role |-> "assistant", content |-> <<"o","k">>] >>

InitMemory ==
  /\ resources = Passages
  /\ embeddings = Chunks
  /\ InitFrc
  /\ threads = [t \in ThreadIds |-> IF t = PriorThread THEN PriorMessages ELSE <<>>]
  /\ chatMemory = MemoryDocs(PriorThread, 2, PriorMessages[1].content, PriorMessages[2].content)
  /\ post = [r \in Reqs |-> IdlePost]
  /\ posts = 0
  /\ InitSide

\* The user messages of its requests: "P3" and "" (no last message).
MemoryQueries == { <<"P","3">>, <<>> }

NextMemory ==
  \/ \E r \in Reqs : \E t \in ThreadIds : \E q \in MemoryQueries : POST_Start(r, t, q)
  \/ \E r \in Reqs : PostStep(r)
  \/ FrcStep

SpecMemory == InitMemory /\ [][NextMemory]_vars

(***************************************************************************)
(* The fusion step on drawn candidate lists (specification SpecFuse)       *)
(***************************************************************************)
\* Longest vector and lexical candidate lists, and largest limit, drawn.
MaxFuseVec == 3

MaxFuseText == 2

MaxFuseLimit == 4

\* KeyPrefixLen characters shared by two passages that differ after them.
LongPrefix == [i \in 1..KeyPrefixLen |-> "x"]

\* Vector candidates { content, resourceId? }: two chunks of passage A, a
\* chunk of B, a chunk of C that names P7, and a chunk without resourceId.
FuseVectorPool ==
  << [resourceId |-> "A", content |-> <<"a","l","p","h","a">>],
     [resourceId |-> "A", content |-> <<"a","l","p","h","a"," ","2">>],
     [resourceId |-> "B", content |-> <<"b","e","t","a">>],
     [resourceId |-> "C", content |-> <<"s","e","e"," ","P","7">>],
     [resourceId |-> "", content |-> LongPrefix \o <<"1">>] >>

\* Lexical candidates { content, id? }: passages B and D, passage E that
\* names p7, and a passage without id.
FuseTextPool ==
  << [id |-> "B", content |-> <<"b","e","t","a">>],
     [id |-> "D", content |-> <<"d","e","l","t","a">>],
     [id |-> "E", content |-> <<"s","e","e"," ","p","7"," ","t","o","o">>],
     [id |-> "", content |-> LongPrefix \o <<"2">>] >>

\* The queries of the fusion runs: "tcp" (no identifier) and "P7".
FuseQueries == { <<"t","c","p">>, <<"P","7">> }

\* The subsequences of the sequence s.
RECURSIVE SubSeqs(_)
SubSeqs(s) ==
  IF s = <<>> THEN {<<>>}
  ELSE LET rest == SubSeqs(Tail(s)) IN rest \cup { <<Head(s)>> \o t : t \in rest }

\* Entries of fusedMap whose scores meet: a vector-only key at rank 0, a
\* vector-only key at rank 32 (0.6/93), a lexical-only key at rank 1
\* (0.4/62 = 0.6/93) and a lexical-only key at rank 0.
FuseEntryPool ==
  << [key |-> IdKey("A"), score |-> Weighted(VectorWeight, 0), content |-> <<"a","l","p","h","a">>],
     [key |-> IdKey("Z"), score |-> Weighted(VectorWeight, 32), content |-> <<"z","e","t","a">>],
     [key |-> IdKey("D"), score |-> Weighted(TextWeight, 1), content |-> <<"d","e","l","t","a">>],
     [key |-> IdKey("G"), score |-> Weighted(TextWeight, 0), content |-> <<"g","a","m","m","a">>] >>

\* The call has reached its fusion step (lines 290-330) ...
InitFuseCall ==
  /\ resources = Passages
  /\ embeddings = Chunks
  /\ client = TRUE
  /\ db = TRUE
  /\ caller = "direct"
  /\ userQuery \in FuseQueries
  /\ limit \in 1..MaxFuseLimit
  /\ embeddingCount = Len(Chunks)
  /\ strong = <<>>
  /\ result = <<>>
  /\ outcome = "none"
  /\ path = "none"
  /\ failed = "none"
  /\ vectorFailed = FALSE
  /\ fuseRan = FALSE
  /\ embedCalls = 1
  /\ vectorCalls = 1
  /\ InitChat
  /\ InitSide

\* ... with drawn candidate lists,
InitFuseLists ==
  /\ InitFuseCall
  /\ rpc = "fuse"
  /\ vectorResults \in Arrangements(FuseVectorPool, MaxFuseVec)
  /\ textResults \in Arrangements(FuseTextPool, MaxFuseText)
  /\ fusedMap = <<>>

\* or its sort (lines 323-326) with drawn entries of fusedMap.
InitFuseSort ==
  /\ InitFuseCall
  /\ rpc = "sort"
  /\ vectorResults = <<>>
  /\ textResults = <<>>
  /\ fusedMap \in SubSeqs(FuseEntryPool)

InitFuse == InitFuseLists \/ InitFuseSort

NextFuse ==
  \/ FRC_Fuse
  \/ FRC_Sort
  \/ FRC_Fallback
  \/ FRC_Return

SpecFuse == InitFuse /\ [][NextFuse]_vars

(***************************************************************************)
(* Properties of findRelevantContent (specification Spec)                  *)
(***************************************************************************)
IdP3 == <<"P", "3">>

\* The call has executed a return statement or left its outer catch.
Done == rpc = "done"

\* The corpus has at least one embedded passage.
Embedded == Len(embeddings) > 0

\* The passages anchored on an identifier of ids, in store order.
Anchored(ids) == FilterSeq(resources, {r \in Range(resources) : StrongMatch(r.content, ids)})

\* The passages matching an alternative of alts, in store order.
Matching(alts) == FilterSeq(resources, {r \in Range(resources) : RegexMatch(r.content, alts)})

\* The query has only whitespace characters (or none).
BlankQuery == \A i \in 1..Len(userQuery) : userQuery[i] \in Whitespace

\* C1, as stated: for a query containing the identifier P3 and an embedded
\* corpus, every passage that begins a line with "P3." / "Problem P3:" is
\* returned first with similarity 1.0, whatever the vector search did
\* (calls whose embedder and finds answered).
C1_P3PassageFirst ==
  (Done /\ Embedded /\ failed = "none" /\ IdP3 \in Range(ExplicitIds(userQuery)))
    => \A r \in Range(resources) :
         StrongMatch(r.content, <<IdP3>>)
           => /\ result # <<>>
              /\ result[1].name = r.content
              /\ result[1].similarity = StrongSimilarity

\* C1, amended: the first result is, with similarity 1.0, the first passage
\* in store order anchored on any identifier of the query -- the P3 passage
\* when P3 is the only identifier of the query -- whatever the vector search
\* returned or threw.
C1_FirstAnchoredPassageFirst ==
  (Done /\ Embedded /\ failed = "none" /\ IdP3 \in Range(ExplicitIds(userQuery))
     /\ Anchored(<<IdP3>>) # <<>>)
    => /\ result # <<>>
       /\ result[1].name = Anchored(ExplicitIds(userQuery))[1].content
       /\ result[1].similarity = ScoreOne
       /\ ExplicitIds(userQuery) = <<IdP3>> => result[1].name = Anchored(<<IdP3>>)[1].content

\* C1 witness: the P3 passage returned first although the vector search
\* ranked another passage first.
C1_Witness ==
  /\ Done /\ Embedded /\ failed = "none"
  /\ ExplicitIds(userQuery) = <<IdP3>>
  /\ vectorResults # <<>>
  /\ result # <<>>
  /\ result[1].name = Anchored(<<IdP3>>)[1].content
  /\ vectorResults[1].content # result[1].name

\* C2: when the query has an identifier and the anchored match yields a
\* passage, the result holds only anchored passages, at most limit, all with
\* similarity 1.0, and the fusion step has not run; the fusion step runs only
\* without identifiers or without anchored matches.
C2_ShortCircuitExclusive ==
  /\ (Done /\ embeddingCount > 0 /\ HasExplicitIds(userQuery) /\ strong # <<>>)
       => /\ ~fuseRan
          /\ path = "short"
          /\ Len(result) >= 1
          /\ Len(result) <= limit
          /\ \A i \in 1..Len(result) :
               /\ result[i].similarity = ScoreOne
               /\ \E r \in Range(resources) :
                    r.content = result[i].name /\ StrongMatch(r.content, ExplicitIds(userQuery))
  /\ fuseRan => (ExplicitIds(userQuery) = <<>> \/ Anchored(ExplicitIds(userQuery)) = <<>>)

\* C2 witness: a short-circuit return that left vector and lexical
\* candidates out.
C2_Witness ==
  /\ Done /\ path = "short"
  /\ vectorResults # <<>>
  /\ Len(textResults) > Len(result)
  /\ \E i \in 1..Len(vectorResults) :
       \A k \in 1..Len(result) : result[k].name # vectorResults[i].content

\* C3: when the vector search throws (and nothing else does, and there is no
\* short-circuit) the call returns the fusion of the lexical candidates alone.
C3_VectorFailureLexicalFusion ==
  (Done /\ vectorFailed /\ failed = "none" /\ path # "short")
    => /\ outcome = "returned"
       /\ vectorResults = <<>>
       /\ result = Fuse(<<>>, textResults, ExplicitIds(userQuery), limit)

\* C4: when the embedding call fails on an embedded corpus, the lexical
\* matches that exist are still returned.
C4_EmbedFailureKeepsLexical ==
  (Done /\ Embedded /\ failed = "embed")
    => /\ outcome = "returned"
       /\ (Combined(userQuery) # <<>> /\ RegexValid(Combined(userQuery))
             /\ Matching(Combined(userQuery)) # <<>>)
            => result # <<>>

\* C5: when the lexical or the anchored find throws after the vector search
\* returned candidates, the fusion of the vector candidates is returned.
C5_LexicalFailureKeepsVector ==
  (Done /\ failed \in {"lexical", "strong"} /\ vectorResults # <<>>)
    => /\ outcome = "returned"
       /\ result = Fuse(vectorResults, <<>>, ExplicitIds(userQuery), limit)

\* Every search of the call came back empty.
NothingMatched ==
  /\ vectorResults = <<>>
  /\ textResults = <<>>
  /\ strong = <<>>
  /\ path = "fallback" => Matching(SearchTerms(userQuery)) = <<>>

\* C6: the call never throws; it completes with a list, which is empty when
\* the store is unreachable and when nothing matched.
C6_NeverThrows ==
  /\ outcome # "thrown"
  /\ Done => /\ outcome = "returned"
             /\ Len(result) >= 0
             /\ failed \in {"getCollections", "count"} => result = <<>>
             /\ NothingMatched => result = <<>>

\* C6 witness: a call that completed with the empty list after the store
\* connection failed.
C6_Witness ==
  /\ Done /\ failed = "getCollections"
  /\ outcome = "returned" /\ result = <<>>

\* C7: with zero embedded passages the call uses neither the embedder nor the
\* vector search and returns at most limit passages, each matching a query
\* word of length > 2 and scored 0.7.
C7_FallbackMatchesQueryWords ==
  (Done /\ ~Embedded)
    => /\ embedCalls = 0
       /\ vectorCalls = 0
       /\ outcome = "returned"
       /\ Len(result) <= limit
       /\ \A i \in 1..Len(result) :
            /\ result[i].similarity = FallbackSimilarity
            /\ \E k \in 1..Len(SearchTerms(userQuery)) :
                 RegexMatch(result[i].name, <<SearchTerms(userQuery)[k]>>)

\* C8: an empty or whitespace-only query raises no error, gets no lexical
\* candidate, and with zero embedded passages gets the empty list.
C8_BlankQueryNoLexical ==
  (Done /\ BlankQuery)
    => /\ outcome = "returned"
       /\ textResults = <<>>
       /\ ~Embedded => result = <<>>

\* The call ran the query "P1" on the corpus of the identifier scenario, and
\* no search of it failed (specification SpecScenario).
IdentifierScenario ==
  /\ Done /\ failed = "none"
  /\ resources = ScenarioPassages
  /\ Embedded
  /\ userQuery = <<"P", "1">>

\* The contents of the returned list, in list order.
ResultNames == [i \in 1..Len(result) |-> result[i].name]

\* C15, as stated: the short-circuit returns the first and the third
\* passage, both with score 1.0, in corpus order, and not the second (for a
\* limit of two or more).
C15_FirstAndThirdReturned ==
  (IdentifierScenario /\ limit >= 2)
    => /\ path = "short"
       /\ ResultNames = <<ScenarioPassages[1].content, ScenarioPassages[3].content>>
       /\ \A i \in 1..Len(result) : result[i].similarity = ScoreOne

\* C15, amended: the short-circuit returns the first passage alone, with
\* score 1.0; the third, where "P1" is followed by " follow-up:" and not by
\* a delimiter, is not anchored and is not returned, nor is the second.
C15_OnlyFirstReturned ==
  IdentifierScenario
    => /\ path = "short"
       /\ ~fuseRan
       /\ ResultNames = <<ScenarioPassages[1].content>>
       /\ result[1].similarity = ScoreOne
       /\ ~StrongMatch(ScenarioPassages[3].content, ExplicitIds(<<"P", "1">>))

\* C15 witness: with limit 2 the call returned one passage, the first,
\* although the vector search ranked the third passage first.
C15_Witness ==
  /\ IdentifierScenario
  /\ limit >= 2
  /\ Len(result) = 1
  /\ result[1].name = ScenarioPassages[1].content
  /\ vectorResults # <<>>
  /\ vectorResults[1].content = ScenarioPassages[3].content

\* C21: whenever the vector search has been issued, the number of results it
\* was asked for, Math.max(limit, 8), is at least 2 * limit (specification
\* SpecContract: limits 1 to 12).
C21_VectorOverFetch ==
  vectorCalls > 0 => VectorLimit(limit) >= 2 * limit

\* C22: in one call the embedder and the vector search are invoked at most
\* once each; a failed vector search is followed by the lexical search, not
\* by another vector search; and after a failure that reached the outer
\* catch the call is over.
C22_NoRetries ==
  /\ embedCalls <= 1
  /\ vectorCalls <= 1
  /\ vectorCalls <= embedCalls
  /\ vectorFailed => (vectorCalls = 1 /\ rpc # "vector")
  /\ failed # "none" => (Done /\ result = <<>>)

\* C22 witness: a call that went on to its lexical search after its one
\* vector search failed.
C22_Witness ==
  /\ vectorFailed
  /\ rpc = "lexical"
  /\ embedCalls = 1
  /\ vectorCalls = 1

\* C23: a call that no error ended takes the text-search fallback if and
\* only if the corpus has no embedded passage; on a corpus with embedded
\* passages no returned result carries the fallback score 0.7.
C23_FallbackOnlyWithoutEmbeddings ==
  /\ (Done /\ failed = "none") => (path = "fallback" <=> ~Embedded)
  /\ (Done /\ Embedded)
       => \A i \in 1..Len(result) : result[i].similarity # FallbackSimilarity

\* C26: every list a finished call returns is ordered by non-increasing
\* similarity, whichever of the three return paths produced it.
C26_NonIncreasingSimilarity ==
  Done => \A i \in 1..(Len(result) - 1) :
            result[i].similarity >= result[i + 1].similarity

\* C26 witness: a fused list of two results whose scores differ.
C26_Witness ==
  /\ Done
  /\ path = "fused"
  /\ Len(result) = 2
  /\ result[1].similarity > result[2].similarity

(***************************************************************************)
(* Properties of the chat route (specification SpecChat)                   *)
(***************************************************************************)
\* Positions of a request after memory retrieval and before its memory write.
AfterMemoryRetrieval ==
  {"retrieve", "retrieving", "summary", "model", "pushAssistant", "memWrite"}

\* The steps that follow memory retrieval and whose error gives the 500 response.
StepsAfterMemory == {"findRelevantContent", "summary", "model", "pushAssistant"}

\* C9: on a thread with zero stored memory items, memory retrieval leaves the
\* memory context empty and calls neither the embedder nor the vector search.
C9_MemorySkippedOnEmptyThread ==
  \A r \in Reqs :
    (post[r].pc \in AfterMemoryRetrieval /\ MemoryOf(post[r].threadId) = <<>>)
      => /\ post[r].memoryContext = <<>>
         /\ post[r].memEmbedCalls = 0
         /\ post[r].memSearchCalls = 0

\* C9 witness: memory retrieval skipped, without error, for a thread with no
\* memory items while another thread has some.
C9_Witness ==
  \E r \in Reqs :
    /\ post[r].pc = "retrieve"
    /\ ~post[r].memFailed
    /\ MemoryOf(post[r].threadId) = <<>>
    /\ chatMemory # <<>>

\* C10: an error of memory retrieval leaves the memory context empty and the
\* request goes on to corpus retrieval and the model call; when no later step
\* fails the response is the normal one, and a 500 after a memory error is
\* the error of a later step.
C10_MemoryFailureIsolated ==
  \A r \in Reqs :
    post[r].memFailed
      => /\ post[r].memoryContext = <<>>
         /\ post[r].pc \in AfterMemoryRetrieval \cup {"respond", "done"}
         /\ post[r].pc = "done"
              => /\ post[r].status \in {200, 500}
                 /\ post[r].status = 500 <=> post[r].failed \in StepsAfterMemory
                 /\ post[r].status = 200
                      => post[r].failed = "none" /\ post[r].retrieved /\ post[r].modelCalled

\* C10 witness: the normal response of a request whose memory search threw on
\* a thread that has memory items.
C10_Witness ==
  \E r \in Reqs :
    /\ post[r].pc = "done"
    /\ post[r].memFailed
    /\ post[r].memSearchCalls = 1
    /\ post[r].status = 200

\* C11: every memory item in a request's memory hits, and so in its memory
\* context, carries the threadId of that request, whatever requests on
\* whatever threads came before.
C11_MemoryThreadIsolation ==
  \A r \in Reqs :
    /\ \A i \in 1..Len(post[r].memoryHits) :
         post[r].memoryHits[i].threadId = post[r].threadId
    /\ Len(post[r].memoryContext) = Len(post[r].memoryHits)
    /\ \A i \in 1..Len(post[r].memoryContext) :
         /\ post[r].memoryContext[i].role = post[r].memoryHits[i].role
         /\ post[r].memoryContext[i].content = post[r].memoryHits[i].content

\* C11 witness: a request got memory items of its own thread while the store
\* also holds items of another thread.
C11_Witness ==
  \E r \in Reqs :
    /\ post[r].memoryHits # <<>>
    /\ post[r].memoryContext # <<>>
    /\ \E i \in 1..Len(chatMemory) : chatMemory[i].threadId # post[r].threadId

\* C12: on every path -- short-circuit, fusion, fallback, caught error -- the
\* list returned for a limit > 0 has at most limit elements.
C12_ResultBound ==
  (Done /\ limit > 0)
    => /\ Len(result) <= limit
       /\ path \in {"short", "fused", "fallback", "caught"}

\* C12 witness: a fusion that had more keys than limit returned exactly limit
\* elements.
C12_Witness ==
  /\ Done /\ path = "fused"
  /\ Len(result) = limit
  /\ Len(FusedMap(vectorResults, textResults, ExplicitIds(userQuery))) > limit

(***************************************************************************)
(* Properties of the fusion step (specification SpecFuse)                  *)
(***************************************************************************)
\* The fusion step has just built fusedMap from the candidate lists of the
\* call, which keeps it unchanged until it returns.
MapBuilt == fuseRan /\ rpc = "sort"

\* The identifiers detected in the query of the call.
QueryIds == ExplicitIds(userQuery)

\* The keys of the vector and of the lexical candidates, in list order.
VectorKeysOf(vs) == [i \in 1..Len(vs) |-> VectorKey(vs[i], i - 1)]

TextKeysOf(ts) == [i \in 1..Len(ts) |-> TextKey(ts[i], i - 1)]

\* The positions of key in a list of keys.
Positions(keys, key) == {i \in 1..Len(keys) : keys[i] = key}

\* The score that fusedMap holds for key (0 when it has no entry).
FusedScore(key) == IF MapHas(fusedMap, key) THEN MapGet(fusedMap, key).score ELSE 0

\* C13: a key at rank 0 of the vector list and at rank 0 of the lexical
\* list, once in each, whose lexical content has no identifier of the query,
\* gets the fused score 0.6/61 + 0.4/61 = 1/61 exactly.
C13_RankZeroInBothLists ==
  (fuseRan /\ vectorResults # <<>> /\ textResults # <<>>
     /\ VectorKeysOf(vectorResults)[1] = TextKeysOf(textResults)[1]
     /\ Positions(VectorKeysOf(vectorResults), VectorKeysOf(vectorResults)[1]) = {1}
     /\ Positions(TextKeysOf(textResults), TextKeysOf(textResults)[1]) = {1}
     /\ ~ContainsId(textResults[1].content, QueryIds))
    => /\ FusedScore(VectorKeysOf(vectorResults)[1]) * (1 + rankConstant) = ScoreOne
       /\ (Done /\ path = "fused")
            => \A i \in 1..Len(result) :
                 result[i].resourceId = VectorKeysOf(vectorResults)[1]
                   => result[i].similarity * (1 + rankConstant) = ScoreOne

\* C13 witness: passage B first in both lists, returned first with 1/61
\* ahead of other candidates.
C13_Witness ==
  /\ Done /\ path = "fused" /\ fuseRan
  /\ Len(vectorResults) > 1 /\ Len(textResults) > 1
  /\ vectorResults[1].resourceId = "B"
  /\ textResults[1].id = "B"
  /\ result[1].resourceId = IdKey("B")
  /\ result[1].similarity * 61 = ScoreOne

\* The persistent ids of the vector and of the lexical candidates, and the
\* keys of the returned list, in list order.
VectorIds == [i \in 1..Len(vectorResults) |-> vectorResults[i].resourceId]

TextIds == [i \in 1..Len(textResults) |-> textResults[i].id]

ResultKeys == [i \in 1..Len(result) |-> result[i].resourceId]

\* The vector search returned [A, B, C], the lexical search [B, D], and the
\* query has no identifier.
DoubleMatchScenario ==
  /\ fuseRan
  /\ QueryIds = <<>>
  /\ VectorIds = <<"A", "B", "C">>
  /\ TextIds = <<"B", "D">>

\* C14: in that scenario the fused list ranks B first, ahead of A and of D:
\* it is the first limit keys of B, A, C, D.
C14_DoubleMatchFirst ==
  (Done /\ DoubleMatchScenario)
    => /\ path = "fused"
       /\ ResultKeys = Take(<<IdKey("B"), IdKey("A"), IdKey("C"), IdKey("D")>>, limit)
       /\ result[1].similarity > Weighted(VectorWeight, 0)
       /\ result[1].similarity > Weighted(TextWeight, 1)

\* C14 witness: the scenario with a limit that lets A and D into the list.
C14_Witness ==
  /\ Done /\ DoubleMatchScenario
  /\ ResultKeys = <<IdKey("B"), IdKey("A"), IdKey("C"), IdKey("D")>>

\* The sum of the rank contributions of the occurrences of key in the two
\* lists, each occurrence counted once.
PerKeySum(key) ==
  VectorScore(vectorResults, key, Len(vectorResults))
    + TextScore(textResults, QueryIds, key, Len(textResults))

\* C17: the fused score of every key is the sum of the contributions
\* weight/(i + 1 + 60) of its occurrences in the two lists, each occurrence
\* counted exactly once, also when a key occurs twice in one list.
C17_ScoreIsPerKeySum ==
  MapBuilt
    => \A e \in 1..Len(fusedMap) : fusedMap[e].score = PerKeySum(fusedMap[e].key)

\* content, upper-cased, contains an identifier detected in the query.
NamesQueryId(content) ==
  \E k \in 1..Len(QueryIds) : includes(toUpperCase(content), QueryIds[k])

\* tenths/10 / (i + 61) for a candidate at 0-based rank i.
Contribution(tenths, i) == (tenths * RankDen) \div (i + 61)

\* The contribution of the vector list to key: that of its one occurrence.
VectorPart(key) ==
  IF Positions(VectorKeysOf(vectorResults), key) = {} THEN 0
  ELSE Contribution(6, (CHOOSE i \in Positions(VectorKeysOf(vectorResults), key) : TRUE) - 1)

\* key occurs at most once in the vector list and at most once in the
\* lexical list.
OccursOnce(key) ==
  /\ Cardinality(Positions(VectorKeysOf(vectorResults), key)) <= 1
  /\ Cardinality(Positions(TextKeysOf(textResults), key)) <= 1

\* C18: a lexical candidate at rank i contributes 0.8/(i + 61) when its
\* upper-cased content contains an identifier of the query and 0.4/(i + 61)
\* otherwise; a vector candidate at rank i contributes 0.6/(i + 61) whether
\* or not it contains one (read off fusedMap for keys that occur once).
C18_IdentifierBoost ==
  MapBuilt
    => /\ \A i \in 1..Len(textResults) :
            OccursOnce(TextKeysOf(textResults)[i])
              => FusedScore(TextKeysOf(textResults)[i])
                   - VectorPart(TextKeysOf(textResults)[i])
                 = IF NamesQueryId(textResults[i].content)
                     THEN Contribution(8, i - 1) ELSE Contribution(4, i - 1)
       /\ \A i \in 1..Len(vectorResults) :
            (/\ OccursOnce(VectorKeysOf(vectorResults)[i])
             /\ Positions(TextKeysOf(textResults), VectorKeysOf(vectorResults)[i]) = {})
              => FusedScore(VectorKeysOf(vectorResults)[i]) = Contribution(6, i - 1)

\* C18 witness: for the query "P7", a lexical passage that names p7 in lower
\* case boosted at rank 1 behind one that does not, and a vector chunk that
\* names P7 at 0.6.
C18_Witness ==
  /\ MapBuilt
  /\ QueryIds # <<>>
  /\ Len(textResults) = 2
  /\ ~NamesQueryId(textResults[1].content)
  /\ NamesQueryId(textResults[2].content)
  /\ FusedScore(TextKeysOf(textResults)[2]) = Contribution(8, 1)
  /\ \E i \in 1..Len(vectorResults) :
       /\ NamesQueryId(vectorResults[i].content)
       /\ FusedScore(VectorKeysOf(vectorResults)[i]) = Contribution(6, i - 1)

\* The candidates of both lists with their keys: list, 0-based index,
\* persistent identifier ("" when absent), content and key.
Candidates ==
  { [list |-> "vector", idx |-> i - 1, id |-> vectorResults[i].resourceId,
     content |-> vectorResults[i].content, key |-> VectorKey(vectorResults[i], i - 1)] :
      i \in 1..Len(vectorResults) }
  \cup
  { [list |-> "text", idx |-> i - 1, id |-> textResults[i].id,
     content |-> textResults[i].content, key |-> TextKey(textResults[i], i - 1)] :
      i \in 1..Len(textResults) }

SeenKeys == VectorKeysOf(vectorResults) \o TextKeysOf(textResults)

FirstSeen(key) == CHOOSE i \in Positions(SeenKeys, key) :
                    \A j \in Positions(SeenKeys, key) : i <= j

\* The entry of fusedMap that holds key.
EntryOf(key) == CHOOSE e \in 1..Len(fusedMap) : fusedMap[e].key = key

\* Entry a of fusedMap goes before entry b: higher score, or equal score and
\* earlier in fusedMap.
GoesBefore(a, b) ==
  \/ fusedMap[a].score > fusedMap[b].score
  \/ fusedMap[a].score = fusedMap[b].score /\ a < b

\* The entries of fusedMap that the returned list holds.
Returned == {EntryOf(result[i].resourceId) : i \in 1..Len(result)}

\* C19: fusedMap holds each key once, in first-seen order (the keys of the
\* vector list in vector order, then the keys that only the lexical list
\* has, in lexical order); the returned list is its first limit entries by
\* descending score, entries of equal score in that first-seen order.
C19_TieBreakFirstSeen ==
  /\ MapBuilt
       => /\ {fusedMap[e].key : e \in 1..Len(fusedMap)} = Range(SeenKeys)
          /\ \A e, f \in 1..Len(fusedMap) :
               e < f => FirstSeen(fusedMap[e].key) < FirstSeen(fusedMap[f].key)
  /\ (Done /\ path = "fused")
       => /\ Len(result) = Min(limit, Len(fusedMap))
          /\ \A i \in 1..Len(result) :
               /\ MapHas(fusedMap, result[i].resourceId)
               /\ result[i].similarity = fusedMap[EntryOf(result[i].resourceId)].score
          /\ \A i, j \in 1..Len(result) :
               i < j => GoesBefore(EntryOf(result[i].resourceId), EntryOf(result[j].resourceId))
          /\ \A a \in Returned : \A b \in (1..Len(fusedMap)) \ Returned : GoesBefore(a, b)

\* C19 witness: the vector-only key Z (rank 32, 0.6/93) and the lexical-only
\* key D (rank 1, 0.4/62) have equal scores and are returned in that order,
\* behind the key G that was seen after both and scores higher.
C19_Witness ==
  /\ Done /\ path = "fused"
  /\ ResultKeys = <<IdKey("A"), IdKey("G"), IdKey("Z"), IdKey("D")>>
  /\ result[3].similarity = result[4].similarity
  /\ EntryOf(IdKey("Z")) < EntryOf(IdKey("D"))
  /\ EntryOf(IdKey("D")) < EntryOf(IdKey("G"))

RoleCount(t, role) == Cardinality({i \in 1..Len(threads[t]) : threads[t][i].role = role})

\* The user message of request r.
UserMessage(r) == [role |-> "user", content |-> post[r].userQuery]

\* The thread of request r ends with its user message: stored, no reply yet.
Unanswered(r) ==
  /\ post[r].threadId \in ThreadIds
  /\ threads[post[r].threadId] # <<>>
  /\ threads[post[r].threadId][Len(threads[post[r].threadId])] = UserMessage(r)

\* The steps of the handler between its two thread writes.
BetweenWrites ==
  {"findThread", "memCount", "memEmbed", "memSearch", "retrieve", "retrieving",
   "summary", "model", "pushAssistant"}

\* Request r has started memory retrieval, corpus retrieval or the model call.
Retrieving(r) ==
  \/ post[r].memEmbedCalls > 0
  \/ post[r].memSearchCalls > 0
  \/ post[r].pc = "retrieving"
  \/ post[r].retrieved
  \/ post[r].modelCalled

\* C28: the user message is in the thread before memory retrieval, corpus
\* retrieval and the model call; the assistant message is written only after
\* the model call returned; no thread holds more assistant than user
\* messages; a request that failed after its first write leaves its user
\* message as the last message of the thread, without a reply.
C28_ThreadWriteOrder ==
  /\ \A t \in ThreadIds : RoleCount(t, "assistant") <= RoleCount(t, "user")
  /\ \A r \in Reqs :
       /\ post[r].pc \in {"getCollections", "pushUser"} => ~Retrieving(r)
       /\ post[r].pc \in BetweenWrites => Unanswered(r)
       /\ (post[r].pc \in {"memWrite", "respond"} \/ post[r].status = 200)
            => /\ post[r].modelCalled
               /\ threads[post[r].threadId][Len(threads[post[r].threadId])]
                    = [role |-> "assistant", content |-> post[r].aiResponse]
       /\ (post[r].status = 500 /\ post[r].failed \notin {"json", "getCollections", "pushUser"})
            => Unanswered(r)

\* C28 witness: a request on the thread that already held an exchange, whose
\* model call failed: the thread ends with its user message.
C28_Witness ==
  \E r \in Reqs :
    /\ post[r].status = 500
    /\ post[r].failed = "model"
    /\ post[r].threadId = PriorThread
    /\ Unanswered(r)
    /\ RoleCount(PriorThread, "user") > RoleCount(PriorThread, "assistant")

\* C29: the message list a request sent to the model ends with its user
\* query twice: once as the last element of the history read after the
\* write, once appended by the handler.
C29_QuerySentTwice ==
  \A r \in Reqs :
    post[r].modelCalled
      => /\ Len(post[r].sent) >= 2
         /\ post[r].sent[Len(post[r].sent)] = UserMessage(r)
         /\ post[r].sent[Len(post[r].sent) - 1] = UserMessage(r)

\* C29 witness: a request on the thread that already held an exchange: the
\* model got the two earlier messages and then the query twice.
C29_Witness ==
  \E r \in Reqs :
    /\ post[r].modelCalled
    /\ post[r].threadId = PriorThread
    /\ Len(post[r].sent) = 4
    /\ post[r].sent[3] = post[r].sent[4]
    /\ post[r].sent[2].role = "assistant"

(***************************************************************************)
(* Concurrent requests on one thread (specification SpecTurns)             *)
(***************************************************************************)
\* Two requests that the server handles at the same time, both on thread
\* "t1": each await of the handler is a point where the other may run.
ConcurrentReqs == {"q1", "q2"}

TurnThread == "t1"

InitTurns ==
  /\ resources = Passages
  /\ embeddings = Chunks
  /\ InitFrc
  /\ threads = [t \in ThreadIds |-> <<>>]
  /\ chatMemory = <<>>
  /\ post = [r \in ConcurrentReqs |-> IdlePost]
  /\ posts = 0
  /\ InitSide

NextTurns ==
  \/ \E r \in ConcurrentReqs : \E q \in MemoryQueries : POST_Start(r, TurnThread, q)
  \/ \E r \in ConcurrentReqs : PostStep(r)
  \/ FrcStep

SpecTurns == InitTurns /\ [][NextTurns]_vars

\* The turn values of the memory items of thread t, in write order.
TurnsOf(t) == [i \in 1..Len(MemoryOf(t)) |-> MemoryOf(t)[i].turn]

\* C24: within one thread the turn values of the memory items strictly
\* increase in write order, so no two items of a thread share a turn value.
C24_TurnsStrictlyIncrease ==
  \A t \in ThreadIds :
    \A i \in 1..Len(TurnsOf(t)) : \A j \in 1..Len(TurnsOf(t)) :
      i < j => TurnsOf(t)[i] < TurnsOf(t)[j]

(***************************************************************************)
(* The backfill script (specification SpecBackfill)                        *)
(***************************************************************************)
\* How many times the script is run.
MaxBackfills == 2

\* The order in which the cursor of threads.find({}) yields the threads.
ThreadOrder == <<"t1", "t2">>

\* main() has thrown: the script ends without closing the cursor.
BackfillFails == backfill' = [backfill EXCEPT !.pc = "failed"]

\* const exists = await chatMemory.findOne({ threadId, turn: i + 1 })
MemoryAtTurn(t, turn) == \E k \in 1..Len(chatMemory) :
                           chatMemory[k].threadId = t /\ chatMemory[k].turn = turn

\* The item insertOne stores for message m at index i (0-based) of thread t.
BackfillDoc(t, m, i) == [threadId |-> t, role |-> m.role, turn |-> i + 1, content |-> m.content]

\* node scripts/backfill: connect, const cursor = threads.find({}).  The
\* script is run while no request is being handled.
BF_Start ==
  /\ backfill.pc \in {"idle", "done", "failed"}
  /\ backfill.runs < MaxBackfills
  /\ \A r \in DOMAIN post : post[r].pc = "idle"
  /\ rpc = "idle"
  /\ \/ backfill' = [IdleBackfill EXCEPT !.pc = "cursor", !.cursor = ThreadOrder,
                                         !.runs = backfill.runs + 1]
     \/ backfill' = [IdleBackfill EXCEPT !.pc = "failed", !.runs = backfill.runs + 1]
  /\ UNCHANGED <<storeVars, connVars, frcVars, chatVars, ragChat, calls, link>>

\* while (await cursor.hasNext()) { const t = await cursor.next(); ...
\* if (!Array.isArray(t.messages) || t.messages.length === 0) continue;
\* after the last thread: await client.close()
BF_NextThread ==
  /\ backfill.pc = "cursor"
  /\ \/ /\ backfill.cursor = <<>>
        /\ backfill' = [backfill EXCEPT !.pc = "done"]
     \/ /\ backfill.cursor # <<>>
        /\ LET t == Head(backfill.cursor) IN
             IF threads[t] = <<>>
               THEN backfill' = [backfill EXCEPT !.cursor = Tail(@)]
               ELSE backfill' = [backfill EXCEPT !.pc = "message", !.cursor = Tail(@),
                                                 !.threadId = t, !.messages = threads[t],
                                                 !.i = 0]
     \/ /\ backfill.cursor # <<>>
        /\ BackfillFails
  /\ UNCHANGED <<storeVars, connVars, frcVars, chatVars, ragChat, calls, link>>

\* One round of for (let i = 0; i < t.messages.length; i++): findOne; if
\* (exists) continue; embed; insertOne.
BF_Message ==
  /\ backfill.pc = "message"
  /\ LET t == backfill.threadId
         i == backfill.i
         m == backfill.messages[i + 1]
         next == IF i + 1 < Len(backfill.messages)
                   THEN [backfill EXCEPT !.i = i + 1]
                   ELSE [backfill EXCEPT !.pc = "cursor", !.i = i + 1]
     IN \/ /\ MemoryAtTurn(t, i + 1)
           /\ backfill' = next
           /\ UNCHANGED chatMemory
        \/ /\ ~MemoryAtTurn(t, i + 1)
           /\ chatMemory' = Append(chatMemory, BackfillDoc(t, m, i))
           /\ backfill' = next
        \/ /\ BackfillFails
           /\ UNCHANGED chatMemory
  /\ UNCHANGED <<storeVars, connVars, frcVars, threads, post, posts, ragChat, calls, link>>

BackfillStep == BF_Start \/ BF_NextThread \/ BF_Message

\* Chat requests on the thread that holds one exchange written by the chat
\* route, and runs of the script, one after the other.
NextBackfill ==
  \/ \E r \in Reqs : \E q \in MemoryQueries :
       backfill.pc \in {"idle", "done", "failed"} /\ POST_Start(r, PriorThread, q)
  \/ \E r \in Reqs : PostStep(r)
  \/ FrcStep
  \/ BackfillStep

SpecBackfill == InitMemory /\ [][NextBackfill]_vars

\* The messages of thread t that have the role and the content of m, and
\* the memory items of t made from such a message.
MessagesLike(t, m) == {k \in 1..Len(threads[t]) :
                         threads[t][k].role = m.role /\ threads[t][k].content = m.content}

ItemsLike(t, m) == {k \in 1..Len(chatMemory) :
                      /\ chatMemory[k].threadId = t
                      /\ chatMemory[k].role = m.role
                      /\ chatMemory[k].content = m.content}

\* C27: each thread message has at most one memory item: of any role and
\* content a thread has no more memory items than messages, whether the
\* items were written by the chat route or by a run of the script.
C27_NoDuplicateMemory ==
  \A t \in ThreadIds : \A k \in 1..Len(threads[t]) :
    Cardinality(ItemsLike(t, threads[t][k])) <= Cardinality(MessagesLike(t, threads[t][k]))

(***************************************************************************)
(* The RAGChat component of the browser (specification SpecClient)         *)
(***************************************************************************)
\* How many requests one component sends.
MaxSubmits == 2

\* String.prototype.trim
RECURSIVE TrimStart(_)
TrimStart(s) == IF s # <<>> /\ Head(s) \in Whitespace THEN TrimStart(Tail(s)) ELSE s

RECURSIVE TrimEnd(_)
TrimEnd(s) ==
  IF s # <<>> /\ s[Len(s)] \in Whitespace THEN TrimEnd(SubSeq(s, 1, Len(s) - 1)) ELSE s

Trim(s) == TrimEnd(TrimStart(s))

\* What the user types or dictates.
ChatInputs == { <<>>, <<" ">>, <<"h","i">>, <<" ","P","3"," ">> }

\* The content field of a response of the route.
ClientReplies == { <<"o","k">>, <<>> }

\* 'I apologize, but I could not generate a response.'
NoResponseText == <<"n","o"," ","r","e","s","p","o","n","s","e">>

\* 'I apologize, but there was an error processing your request. ...'
ErrorText == <<"e","r","r","o","r">>

\* Mutant: the guard of handleSubmit without its isLoading test.
SubmitsWhileLoading(inp, loading) == Trim(inp) # <<>>

\* if (!input.trim() || isLoading) return
Submits(inp, loading) == ~(Trim(inp) = <<>> \/ loading)

\* finally { setIsLoading(false) }, after the message msg was appended
Settled(c, msg) == [c EXCEPT !.messages = Append(@, msg), !.isLoading = FALSE]

\* onChange of the text field, which is disabled while the rendered
\* isLoading is true: setInput(e.target.value)
UI_Change ==
  /\ ~ragChat.shown
  /\ \E text \in ChatInputs : ragChat' = [ragChat EXCEPT !.input = text]
  /\ UNCHANGED <<storeVars, connVars, frcVars, chatVars, backfill, calls, link>>

\* onstop of a recording whose transcription arrives: setInput(data.text),
\* whatever isLoading is
UI_Transcript ==
  /\ \E text \in ChatInputs : ragChat' = [ragChat EXCEPT !.input = text]
  /\ UNCHANGED <<storeVars, connVars, frcVars, chatVars, backfill, calls, link>>

\* handleSubmit up to its fetch.  It tests the isLoading of the render it
\* was created in; its own setIsLoading(true) is rendered before the next
\* event is handled.
UI_Submit ==
  /\ ragChat.submits < MaxSubmits
  /\ IF Submits(ragChat.input, ragChat.shown)
       THEN ragChat' = [ragChat EXCEPT
                          !.messages = Append(@, [role |-> "user",
                                                  content |-> Trim(ragChat.input)]),
                          !.input = <<>>,
                          !.isLoading = TRUE,
                          !.shown = TRUE,
                          !.fetching = @ + 1,
                          !.submits = @ + 1,
                          !.last = [sent |-> TRUE, input |-> ragChat.input,
                                    isLoading |-> ragChat.isLoading]]
       ELSE ragChat' = [ragChat EXCEPT
                          !.last = [sent |-> FALSE, input |-> ragChat.input,
                                    isLoading |-> ragChat.isLoading]]
  /\ UNCHANGED <<storeVars, connVars, frcVars, chatVars, backfill, calls, link>>

\* await fetch(...) is over: a response that is ok goes on to
\* response.json(); any other response and a rejected fetch go to the catch
\* block and then to finally.
UI_Fetched ==
  /\ ragChat.fetching > 0
  /\ \/ ragChat' = [ragChat EXCEPT !.fetching = @ - 1, !.parsing = @ + 1]
     \/ ragChat' = [Settled(ragChat, [role |-> "assistant", content |-> ErrorText])
                      EXCEPT !.fetching = @ - 1]
  /\ UNCHANGED <<storeVars, connVars, frcVars, chatVars, backfill, calls, link>>

\* await response.json() is over: the thread id is kept, the reply is
\* appended; a body that does not parse goes to the catch block; finally.
UI_Parsed ==
  /\ ragChat.parsing > 0
  /\ \/ \E reply \in ClientReplies : \E t \in {"", "t1"} :
          ragChat' = [Settled(ragChat,
                              [role |-> "assistant",
                               content |-> IF reply # <<>> THEN reply ELSE NoResponseText])
                        EXCEPT !.parsing = @ - 1,
                               !.threadId = IF t # "" /\ ragChat.threadId = "null"
                                              THEN t ELSE @]
     \/ ragChat' = [Settled(ragChat, [role |-> "assistant", content |-> ErrorText])
                      EXCEPT !.parsing = @ - 1]
  /\ UNCHANGED <<storeVars, connVars, frcVars, chatVars, backfill, calls, link>>

\* React renders the isLoading set outside an event handler.
UI_Render ==
  /\ ragChat.shown # ragChat.isLoading
  /\ ragChat' = [ragChat EXCEPT !.shown = ragChat.isLoading]
  /\ UNCHANGED <<storeVars, connVars, frcVars, chatVars, backfill, calls, link>>

InitClient ==
  /\ resources = Passages
  /\ embeddings = Chunks
  /\ InitFrc
  /\ InitChat
  /\ InitSide

NextClient ==
  \/ UI_Change
  \/ UI_Transcript
  \/ UI_Submit
  \/ UI_Fetched
  \/ UI_Parsed
  \/ UI_Render

SpecClient == InitClient /\ [][NextClient]_vars

\* The requests of the component that have been sent and not yet settled.
Outstanding == ragChat.fetching + ragChat.parsing

\* C30: a submit sends a request only when isLoading is false and the
\* trimmed input is not empty; at most one request of the component is
\* outstanding; isLoading is true exactly while one is, so it is false again
\* after every request, whether it ended in a reply or in the catch block.
C30_SingleRequestInFlight ==
  /\ ragChat.last.sent => (~ragChat.last.isLoading /\ Trim(ragChat.last.input) # <<>>)
  /\ Outstanding <= 1
  /\ ragChat.isLoading <=> Outstanding = 1

\* C30 witness: a submit was ignored while the one request was outstanding
\* and a dictated text was in the input field.
C30_Witness ==
  /\ Outstanding = 1
  /\ ragChat.isLoading
  /\ ~ragChat.last.sent
  /\ ragChat.last.isLoading
  /\ Trim(ragChat.last.input) # <<>>

(***************************************************************************)
(* Concurrent findRelevantContent calls and the lazy connection            *)
(* (specification SpecRace)                                                *)
(***************************************************************************)
\* The queries of the concurrent calls; the corpus has no embeddings, so a
\* call that runs alone returns its text-search fallback.
RaceQueries == { <<"u","d","p">>, <<"t","c","p">>, <<>> }

\* What the call returns when it runs alone on the stores.
AloneResult(q, lim) == IF RegexValid(SearchTerms(q)) THEN FallbackResult(q, lim) ELSE <<>>

\* catch (error) { return [] } of findRelevantContent
CallCaught(c) == calls' = [calls EXCEPT ![c].pc = "done", ![c].outcome = "returned",
                                        ![c].result = <<>>]

\* if (!db) { db = client.db(...); the five collection handles; await
\* ensureIndexes() } else return: where the call is after the test.
AfterDbTest == IF db THEN "collections" ELSE "indexes"

\* findRelevantContent(q, lim) up to the first await inside
\* connectToDatabase: if (!client) { client = new MongoClient(uri); await
\* client.connect() }; with client set it goes straight on to if (!db).
RC_Call(c, q, lim) ==
  /\ calls[c].pc = "idle"
  /\ calls' = [calls EXCEPT ![c].pc = IF client THEN AfterDbTest ELSE "connecting",
                            ![c].userQuery = q, ![c].limit = lim]
  /\ client' = TRUE
  /\ db' = IF client THEN TRUE ELSE db
  /\ link' = [link EXCEPT !.conn = IF client THEN @ ELSE "connecting",
                          !.clients = IF client THEN @ ELSE @ + 1,
                          !.dbs = IF client /\ ~db THEN @ + 1 ELSE @]
  /\ UNCHANGED <<storeVars, frcVars, chatVars, backfill, ragChat>>

\* await client.connect() is over: resolved, and on to if (!db); or
\* rejected, and the error reaches the catch of findRelevantContent.
RC_Connected(c) ==
  /\ calls[c].pc = "connecting"
  /\ \/ /\ link.conn \in {"connecting", "open"}
        /\ calls' = [calls EXCEPT ![c].pc = AfterDbTest]
        /\ db' = TRUE
        /\ link' = [link EXCEPT !.conn = "open", !.dbs = IF db THEN @ ELSE @ + 1]
     \/ /\ link.conn \in {"connecting", "failed"}
        /\ CallCaught(c)
        /\ link' = [link EXCEPT !.conn = "failed"]
        /\ UNCHANGED db
  /\ UNCHANGED <<storeVars, client, frcVars, chatVars, backfill, ragChat>>

\* await ensureIndexes() is over; its own try/catch keeps every error.
RC_Indexes(c) ==
  /\ calls[c].pc = "indexes"
  /\ calls' = [calls EXCEPT ![c].pc = "collections"]
  /\ UNCHANGED <<storeVars, connVars, frcVars, chatVars, backfill, ragChat, link>>

\* getCollections returns the module-level handles; countDocuments of both
\* collections.  On a client whose connect() has not resolved the driver
\* either refuses the operation (the error reaches the catch) or connects
\* by itself and answers.
RC_Count(c) ==
  /\ calls[c].pc = "collections"
  /\ \/ /\ link.conn # "failed"
        /\ calls' = [calls EXCEPT ![c].pc = "fallback",
                                  ![c].handles = IF db THEN "set" ELSE "unset"]
        /\ link' = [link EXCEPT !.conn = "open"]
     \/ /\ link.conn # "open"
        /\ calls' = [calls EXCEPT ![c].pc = "done", ![c].outcome = "returned",
                                  ![c].result = <<>>,
                                  ![c].handles = IF db THEN "set" ELSE "unset"]
        /\ UNCHANGED link
  /\ UNCHANGED <<storeVars, connVars, frcVars, chatVars, backfill, ragChat>>

\* No embeddings: the text-search fallback and its return.
RC_Fallback(c) ==
  /\ calls[c].pc = "fallback"
  /\ calls' = [calls EXCEPT ![c].pc = "done", ![c].outcome = "returned",
                            ![c].result = AloneResult(calls[c].userQuery, calls[c].limit)]
  /\ UNCHANGED <<storeVars, connVars, frcVars, chatVars, backfill, ragChat, link>>

\* Two callers in one server process that has not connected yet.
InitRace ==
  /\ resources = Passages
  /\ embeddings = <<>>
  /\ InitFrc
  /\ InitChat
  /\ InitSide

NextRace ==
  \/ \E c \in CallIds : \E q \in RaceQueries : \E lim \in 1..MaxLimit : RC_Call(c, q, lim)
  \/ \E c \in CallIds : RC_Connected(c)
  \/ \E c \in CallIds : RC_Indexes(c)
  \/ \E c \in CallIds : RC_Count(c)
  \/ \E c \in CallIds : RC_Fallback(c)

SpecRace == InitRace /\ [][NextRace]_vars

\* client and db are assigned at most once, and every call that got the
\* collection handles got them set.
HandlesInitialisedOnce ==
  /\ link.clients <= 1
  /\ link.dbs <= 1
  /\ \A c \in CallIds : calls[c].handles # "unset"
  /\ \A c \in CallIds : calls[c].pc \in {"collections", "fallback"} => (client /\ db)

====
